---- MODULE Spec2Model ----
(***************************************************************************)
(* Model of valib's Rust code generator (src/valib/codegen.py,             *)
(* src/valib/statespace.py) and of the Newton-Rhapson helper               *)
(* (src/doc/newtonrhapson.py, src/doc/signalmath.py).                      *)
(*                                                                         *)
(* Text is modelled by TLA+ strings, a line sequence by a sequence of      *)
(* strings.  A Python generator is modelled by the record                  *)
(*   [lines |-> the lines it yields, raises |-> whether it then raises].   *)
(* A Python set is a TLA+ set; iterating it picks one of its orderings.    *)
(* A Python dict is the sequence of its <<key, value>> items in insertion  *)
(* order.                                                                  *)
(***************************************************************************)
EXTENDS Integers, Sequences, FiniteSets, TLC

(***************************************************************************)
(* String helpers (Python str semantics)                                   *)
(***************************************************************************)

\* Runs of consecutive ASCII characters, each with the code point of its first
\* character: the digits and the colon, the capitals, the underscore, the
\* small letters.
OrdRuns ==
    << <<"0123456789:", 48>>, <<"ABCDEFGHIJKLMNOPQRSTUVWXYZ", 65>>,
       <<"_", 95>>, <<"abcdefghijklmnopqrstuvwxyz", 97>> >>

\* ord(c) for a one-character string c of OrdRuns.
Ord(c) ==
    LET r == CHOOSE k \in 1..Len(OrdRuns) :
                 \E i \in 1..Len(OrdRuns[k][1]) : SubSeq(OrdRuns[k][1], i, i) = c
        i == CHOOSE j \in 1..Len(OrdRuns[r][1]) : SubSeq(OrdRuns[r][1], j, j) = c
    IN  OrdRuns[r][2] + i - 1

\* s < t for Python strings: lexicographic by code point.
RECURSIVE StrLess(_, _)
StrLess(s, t) ==
    IF Len(t) = 0 THEN FALSE
    ELSE IF Len(s) = 0 THEN TRUE
    ELSE IF SubSeq(s, 1, 1) = SubSeq(t, 1, 1)
         THEN StrLess(SubSeq(s, 2, Len(s)), SubSeq(t, 2, Len(t)))
         ELSE Ord(SubSeq(s, 1, 1)) < Ord(SubSeq(t, 1, 1))

\* sep.join(parts)
RECURSIVE Join(_, _)
Join(sep, parts) ==
    IF Len(parts) = 0 THEN ""
    ELSE IF Len(parts) = 1 THEN parts[1]
    ELSE parts[1] \o sep \o Join(sep, Tail(parts))

\* s * n
RECURSIVE Repeat(_, _)
Repeat(s, n) == IF n <= 0 THEN "" ELSE s \o Repeat(s, n - 1)

\* The positions at which old occurs in s.
Occurrences(s, old) ==
    {i \in 1..(Len(s) - Len(old) + 1) : SubSeq(s, i, i + Len(old) - 1) = old}

\* s.replace(old, new): the non-overlapping occurrences of old, scanned from
\* the left, are replaced by new.
RECURSIVE Replace(_, _, _)
Replace(s, old, new) ==
    IF Occurrences(s, old) = {} THEN s
    ELSE LET i == CHOOSE k \in Occurrences(s, old) : \A m \in Occurrences(s, old) : k <= m
         IN  SubSeq(s, 1, i - 1) \o new \o Replace(SubSeq(s, i + Len(old), Len(s)), old, new)

\* old in s
Contains(s, old) == Occurrences(s, old) # {}

\* All orderings of a finite set: the orders in which iterating a Python set
\* may deliver its elements.
Orderings(S) ==
    {o \in [1..Cardinality(S) -> S] : \A i, j \in 1..Cardinality(S) : i # j => o[i] # o[j]}

(***************************************************************************)
(* codegen.py: the printer                                                 *)
(***************************************************************************)

\* A mutant of postprocess_print: the rewritten name of recip still matches.
PostprocessRewritesAgain(s) ==
    Replace(Replace(Replace(s, ".recip(", ".simd.recip("), ".powi(", ".simd_powf("),
            ".powf(", ".simd_powf(")

postprocess_print(s) ==
    Replace(Replace(Replace(s, ".recip(", ".simd_recip("), ".powi(", ".simd_powf("),
            ".powf(", ".simd_powf(")


\* An expression atom is one of
\*   [k |-> "sym", name |-> <string>, real |-> <assumption flag>]   sympy.Symbol
\*   [k |-> "int", v |-> <integer>]                                  sympy.Integer
\*   [k |-> "rat", p |-> <integer>, q |-> <integer>]                 sympy.Rational
\* and a matrix is [rows, cols, vals] with vals its entries as iterating the
\* matrix delivers them.

print_Zero(expr) == "T::from_f64(0f64)"

print_Integer(expr) == "T::from_f64(" \o ToString(expr.v) \o "f64)"

print_Rational(expr) ==
    IF expr.p = 1
    THEN "T::from_f64(" \o ToString(expr.q) \o ").simd_recip()"
    ELSE "T::from_f64(" \o ToString(expr.p) \o "f64)" \o " / "
         \o "T::from_f64(" \o ToString(expr.q) \o "f64)"

\* Printer dispatch on the atom's class; sympy.Integer(0) is the class Zero.
print_Atom(expr) ==
    CASE expr.k = "sym" -> expr.name
      [] expr.k = "int" -> IF expr.v = 0 THEN print_Zero(expr) ELSE print_Integer(expr)
      [] expr.k = "rat" -> print_Rational(expr)

print_MatrixBase(A) ==
    "SMatrix::<_, " \o ToString(A.rows) \o ", " \o ToString(A.cols) \o ">::new("
    \o Join(", ", [i \in 1..Len(A.vals) |-> print_Atom(A.vals[i])]) \o ")"

\* ValibPrinter.doprint of a matrix: the printed text, post-processed.
doprint(expr) == postprocess_print(print_MatrixBase(expr))

\* ValibPrinter.doprint of Assignment(var, expr) for an atom expr.
doprint_Assignment(var, expr) == postprocess_print(var \o " = " \o print_Atom(expr) \o ";")

(***************************************************************************)
(* codegen.py: Visibility, Generatable, Function                           *)
(***************************************************************************)

PRIVATE == ""
SELF == "pub(self) "
SUPER == "pub(super) "
CRATE == "pub(crate) "
PUBLIC == "pub "
Visibility == {PRIVATE, SELF, SUPER, CRATE, PUBLIC}

\* Optional[str]: None is <<>>, a string s is <<s>>.
None == <<>>

\* One indentation unit of Generatable.print.
IndentUnit == "    "

\* A mutant of Leading: two spaces for each level.
LeadingNarrow(depth) == Repeat("  ", depth)

\* leading = "    " * depth
Leading(depth) == Repeat(IndentUnit, depth)

\* The loop of Generatable.print: every line of self(printer) behind leading.
PrintLines(lines, depth) == [i \in 1..Len(lines) |-> Leading(depth) \o lines[i]]

trait_bound_repr(s) == IF Len(s) = 0 THEN "" ELSE ": " \o s

\* The signature line of Function.__call__.
SignatureLine(f) ==
    LET params == Join(", ", [i \in 1..Len(f.params) |->
                                 f.params[i][1] \o ": " \o f.params[i][2]])
        joined == Join(", ", [i \in 1..Len(f.type_params) |->
                                 f.type_params[i][1] \o trait_bound_repr(f.type_params[i][2])])
        type_params == IF Len(joined) > 0 THEN "<" \o joined \o ">" ELSE joined
        rettype == IF f.return_type # None THEN "-> " \o f.return_type[1] ELSE ""
    IN  f.visibility \o "fn " \o f.name \o type_params \o "(" \o params \o ") "
        \o rettype \o " {"

(***************************************************************************)
(* statespace.py: StateSpace                                               *)
(***************************************************************************)

\* sympy.cse over the four matrices.  Atoms are never hoisted, so for
\* matrices of atoms there is no binding and the results are the matrices.
cse(obj) == [vars |-> <<>>, exprs |-> <<obj.A, obj.B, obj.C, obj.D>>]

\* StateSpace.__call__: the lines it yields.
StateSpaceCall(ss) ==
    LET nin == ss.obj.Nu
        nstate == ss.obj.Nx
        nout == ss.obj.Ny
        r == cse(ss.obj)
    IN  [lines |->
             [i \in 1..Len(r.vars) |-> doprint_Assignment(r.vars[i][1], r.vars[i][2])]
             \o << "StateSpace::<_, " \o ToString(nin) \o ", " \o ToString(nstate)
                   \o ", " \o ToString(nout) \o ">::new(" >>
             \o [i \in 1..Len(r.exprs) |-> "    " \o doprint(r.exprs[i]) \o ","]
             \o << ")" >>,
         raises |-> FALSE]

\* Generatable.__call__ (self(printer)) by the class of g, and Generatable.print.
\* A "Raw" generatable stands for any other implementation of the protocol: it
\* yields g.lines and then raises if g.raises.
RECURSIVE Call(_)
print(g, depth) ==
    [lines |-> PrintLines(Call(g).lines, depth), raises |-> Call(g).raises]

\* Function.__call__: the signature, the body one level deeper, the closing line.
FunctionCall(f) ==
    LET body == print(f.contents, 1)
    IN  [lines |-> << SignatureLine(f) >> \o body.lines
                   \o (IF body.raises THEN <<>> ELSE << "}" >>),
         raises |-> body.raises]

Call(g) ==
    CASE g.kind = "Raw" -> [lines |-> g.lines, raises |-> g.raises]
      [] g.kind = "StateSpace" -> StateSpaceCall(g)
      [] g.kind = "Function" -> FunctionCall(g)

(***************************************************************************)
(* codegen.py: SourceFile                                                  *)
(***************************************************************************)

Keys(d) == {d[i][1] : i \in 1..Len(d)}

\* d[key] for a key of d
Lookup(d, key) == d[CHOOSE i \in 1..Len(d) : d[i][1] = key][2]

\* A mutant of DictUnion: the right operand's new keys are lost.
DictUnionLeftOnly(d1, d2) ==
    [i \in 1..Len(d1) |->
        IF d1[i][1] \in Keys(d2) THEN << d1[i][1], Lookup(d2, d1[i][1]) >> ELSE d1[i]]

\* d1 | d2 for Python dicts: the items of d1 in their order, a key that d2 has
\* too taking d2's value, then the items of d2 whose key is new, in d2's order.
DictUnion(d1, d2) ==
    [i \in 1..Len(d1) |->
        IF d1[i][1] \in Keys(d2) THEN << d1[i][1], Lookup(d2, d1[i][1]) >> ELSE d1[i]]
    \o SelectSeq(d2, LAMBDA item : item[1] \notin Keys(d1))

\* SourceFile.__or__
SourceFileOr(self, other) ==
    [kind |-> "SourceFile",
     features |-> self.features \cup other.features,
     uses |-> self.uses \cup other.uses,
     functions |-> DictUnion(self.functions, other.functions)]

\* The loop over self.functions.values() of SourceFile.__call__: each
\* function's lines and a blank line, up to the first function that raises.
RECURSIVE FunctionsLines(_)
FunctionsLines(fs) ==
    IF Len(fs) = 0 THEN [lines |-> <<>>, raises |-> FALSE]
    ELSE LET first == print(fs[1][2], 0)
             rest == FunctionsLines(Tail(fs))
         IN  IF first.raises THEN first
             ELSE [lines |-> first.lines \o << "" >> \o rest.lines, raises |-> rest.raises]

\* SourceFile.__call__, with forder and uorder the orders in which iterating
\* the sets self.features and self.uses delivers their elements.
SourceFileCall(sf, forder, uorder) ==
    LET fl == FunctionsLines(sf.functions)
    IN  [lines |-> [i \in 1..Len(forder) |-> "#![feature(" \o forder[i] \o ")]"]
                   \o [i \in 1..Len(uorder) |-> "use " \o uorder[i] \o ";"]
                   \o << "" >> \o fl.lines,
         raises |-> fl.raises]

(***************************************************************************)
(* statespace.py: as_function, as_source_file                              *)
(***************************************************************************)

\* sympy.Tuple(A, B, C, D).atoms(sympy.Symbol): the set of the symbols that
\* occur in the four matrices.
Atoms(obj) ==
    LET all == obj.A.vals \o obj.B.vals \o obj.C.vals \o obj.D.vals
    IN  {all[i] : i \in {j \in 1..Len(all) : all[j].k = "sym"}}

\* list.sort(key=str) is stable: x goes behind every element whose key is not
\* greater than its own.
RECURSIVE InsertByStr(_, _)
InsertByStr(sorted, x) ==
    IF Len(sorted) = 0 THEN << x >>
    ELSE IF StrLess(x.name, sorted[1].name) THEN << x >> \o sorted
    ELSE << sorted[1] >> \o InsertByStr(Tail(sorted), x)

\* A mutant of SortByStr: the list is left in the set's iteration order.
SortByStrSkipped(atoms) == atoms

\* atoms.sort(key=str)
RECURSIVE SortByStr(_)
SortByStr(atoms) ==
    IF Len(atoms) = 0 THEN <<>>
    ELSE InsertByStr(SortByStr(SubSeq(atoms, 1, Len(atoms) - 1)), atoms[Len(atoms)])

\* StateSpace.as_function, with order the order in which iterating the set of
\* atoms delivers them.
as_function(self, name, visibility, order) ==
    LET atoms == SortByStr(order)
        nin == self.obj.Nu
        nstate == self.obj.Nx
        nout == self.obj.Ny
        func == [kind |-> "Function",
                 name |-> name,
                 params |-> [i \in 1..Len(atoms) |-> << atoms[i].name, "T" >>],
                 type_params |-> << << "T", "Scalar" >> >>,
                 contents |-> self,
                 return_type |-> << "StateSpace<T, " \o ToString(nin) \o ", "
                                    \o ToString(nstate) \o ", " \o ToString(nout) \o ">" >>,
                 visibility |-> visibility]
    IN  [uses |-> {"nalgebra::SMatrix", "valib::Scalar",
                   "valib::filters::statespace::StateSpace"},
         func |-> func]

\* StateSpace.as_source_file
as_source_file(self, function_name, function_visibility, order) ==
    LET r == as_function(self, function_name, function_visibility, order)
    IN  [kind |-> "SourceFile", features |-> {}, uses |-> r.uses,
         functions |-> << << function_name, r.func >> >>]

(***************************************************************************)
(* doc/signalmath.py, doc/newtonrhapson.py                                 *)
(* A Signal is a sequence of integers (samples in units of one quantum).   *)
(***************************************************************************)

RECURSIVE SumSq(_)
SumSq(x) == IF Len(x) = 0 THEN 0 ELSE x[1] * x[1] + SumSq(Tail(x))

\* rms(x) < tol, with rms(x) = sqrt(sum(x**2) / len(x)) >= 0: squared on both
\* sides.
rms_less(x, tol) == tol > 0 /\ SumSq(x) < tol * tol * Len(x)

\* The root equations of the model: eval(x, y) = k * (y - x) and
\* differential(x, y) = d at every sample, with d = 0 or d a divisor of k, so
\* that the quotient eval / differential is an integer.
eval(prob, x, guess) == [i \in 1..Len(x) |-> prob.k * (guess[i] - x[i])]
differential(prob, x, guess) == [i \in 1..Len(x) |-> prob.d]

\* step = self.eval(x, guess) / dy
Step(prob, x, guess) ==
    LET e == eval(prob, x, guess)
        dy == differential(prob, x, guess)
    IN  [i \in 1..Len(x) |-> e[i] \div dy[i]]

\* np.zeros_like(x)
zeros_like(x) == [i \in 1..Len(x) |-> 0]

\* A mutant of LoopContinues: the limit is one pass too many.
LoopContinuesOffByOne(n, pass) == IF n > 0 THEN pass <= n ELSE TRUE

\* it = range(self.n) if self.n > 0 else repeat(0): whether the iterator
\* delivers another element after pass elements.
LoopContinues(n, pass) == IF n > 0 THEN pass < n ELSE TRUE

(***************************************************************************)
(* State                                                                   *)
(***************************************************************************)

VARIABLES
    \* postprocess_print applied to a text, and to its own result
    ppIn, ppOnce, ppTwice, ppPc,
    \* two SourceFiles, their merges, two renders of a merge, one Function
    \* rendered and printed at a depth
    sfA, sfB, mergeAB, mergeBA, out1, out2, fnSel, fnDepth, fnBody, fnLines,
    fnPrinted, cgPc,
    \* a StateSpace, the result of as_function / as_source_file, the lines of
    \* a render
    ssObj, ssPc, ssFunc, ssFile, ssOut,
    \* write_to: the generatable, what self(printer) yields, the position in
    \* it, the text f holds in its buffer, the file at path now and before the
    \* call, the handle f, the exception the call raised
    wTarget, wGen, wPc, wPos, wBuf, wFile, wBefore, wHandle, wRaised,
    \* NewtonRhapson: the fields eval/differential, n, tol, iter, the
    \* arguments x and initial, the locals guess and the count of passes
    nrProb, nrN, nrTol, nrIter, nrX, nrInitial, nrGuess, nrPass, nrPc

ppVars == << ppIn, ppOnce, ppTwice, ppPc >>
cgVars == << sfA, sfB, mergeAB, mergeBA, out1, out2, fnSel, fnDepth, fnBody,
             fnLines, fnPrinted, cgPc >>
ssVars == << ssObj, ssPc, ssFunc, ssFile, ssOut >>
wVars == << wTarget, wGen, wPc, wPos, wBuf, wFile, wBefore, wHandle, wRaised >>
nrVars == << nrProb, nrN, nrTol, nrIter, nrX, nrInitial, nrGuess, nrPass, nrPc >>
vars == << ppVars, cgVars, ssVars, wVars, nrVars >>

\* What a generator that has not run has yielded.
NoLines == [lines |-> <<>>, raises |-> FALSE]

EmptyFile == [kind |-> "SourceFile", features |-> {}, uses |-> {}, functions |-> <<>>]

\* The parts of the state a specification does not use.
ppIdle == ppIn = "" /\ ppOnce = "" /\ ppTwice = "" /\ ppPc = "idle"
cgIdle ==
    /\ sfA = EmptyFile /\ sfB = EmptyFile /\ mergeAB = EmptyFile /\ mergeBA = EmptyFile
    /\ out1 = NoLines /\ out2 = NoLines /\ fnSel = EmptyFile /\ fnDepth = 0
    /\ fnBody = NoLines /\ fnLines = NoLines /\ fnPrinted = NoLines /\ cgPc = "idle"
ssIdle ==
    /\ ssObj = EmptyFile /\ ssPc = "idle" /\ ssFunc = EmptyFile /\ ssFile = EmptyFile
    /\ ssOut = NoLines
wIdle ==
    /\ wTarget = EmptyFile /\ wGen = NoLines /\ wPc = "idle" /\ wPos = 0
    /\ wFile = [exists |-> FALSE, text |-> ""] /\ wBefore = [exists |-> FALSE, text |-> ""]
    /\ wHandle = "none" /\ wBuf = "" /\ wRaised = "none"
nrIdle ==
    /\ nrProb = [k |-> 0, d |-> 0] /\ nrN = 0 /\ nrTol = 0 /\ nrIter = <<>> /\ nrX = <<>>
    /\ nrInitial = None /\ nrGuess = <<>> /\ nrPass = 0 /\ nrPc = "idle"

(***************************************************************************)
(* Specification SpecPostprocess: postprocess_print on bounded texts       *)
(***************************************************************************)

\* The longest input is the concatenation of MaxFrags fragments.
MaxFrags == 3

Fragments ==
    {".recip(", ".powi(", ".powf(", ".simd_", ".", "recip(", "powi(", "powf(", "x"}

RECURSIVE Texts(_)
Texts(n) ==
    IF n = 0 THEN {""} ELSE Texts(n - 1) \cup {t \o f : t \in Texts(n - 1), f \in Fragments}

InitPostprocess ==
    /\ ppIn \in Texts(MaxFrags) /\ ppOnce = "" /\ ppTwice = "" /\ ppPc = "start"
    /\ cgIdle /\ ssIdle /\ wIdle /\ nrIdle

\* ret = postprocess_print(s)
PostprocessOnce ==
    /\ ppPc = "start"
    /\ ppOnce' = postprocess_print(ppIn)
    /\ ppPc' = "once"
    /\ UNCHANGED << ppIn, ppTwice, cgVars, ssVars, wVars, nrVars >>

\* postprocess_print(ret)
PostprocessTwice ==
    /\ ppPc = "once"
    /\ ppTwice' = postprocess_print(ppOnce)
    /\ ppPc' = "twice"
    /\ UNCHANGED << ppIn, ppOnce, cgVars, ssVars, wVars, nrVars >>

NextPostprocess == PostprocessOnce \/ PostprocessTwice

SpecPostprocess == InitPostprocess /\ [][NextPostprocess]_vars

\* C7: the substitution pass is idempotent: applied to its own result it
\* changes nothing, and that result holds none of the three call names it
\* rewrites.
C7_PostprocessIdempotent ==
    ppPc = "twice" =>
        /\ ppTwice = ppOnce
        /\ ~Contains(ppOnce, ".recip(")
        /\ ~Contains(ppOnce, ".powi(")
        /\ ~Contains(ppOnce, ".powf(")

\* C7 witness: a text with both a plain and an already rewritten call name
\* went through the pass twice, and the first pass changed it.
C7_Witness ==
    /\ ppPc = "twice"
    /\ Contains(ppIn, ".simd_recip(")
    /\ Contains(ppIn, ".powi(")
    /\ ppOnce # ppIn

(***************************************************************************)
(* Specification SpecCodegen: merging and rendering SourceFiles, rendering *)
(* and printing Functions                                                  *)
(***************************************************************************)

\* The most functions one SourceFile of the initial state holds.
MaxFuncs == 2

\* The deepest indentation print is called with.
MaxDepth == 2

BodyLet == [kind |-> "Raw", lines |-> << "let y = a;", "", "    y" >>, raises |-> FALSE]
BodyNone == [kind |-> "Raw", lines |-> <<>>, raises |-> FALSE]
BodyOne == [kind |-> "Raw", lines |-> << "a + b" >>, raises |-> FALSE]

FnF1 ==
    [kind |-> "Function", name |-> "f", params |-> << << "a", "T" >> >>,
     type_params |-> << << "T", "Scalar" >> >>, contents |-> BodyLet,
     return_type |-> << "T" >>, visibility |-> PUBLIC]
FnF2 ==
    [kind |-> "Function", name |-> "f", params |-> <<>>,
     type_params |-> << << "T", "" >> >>, contents |-> BodyNone,
     return_type |-> None, visibility |-> PRIVATE]
FnG ==
    [kind |-> "Function", name |-> "g", params |-> << << "a", "T" >>, << "b", "T" >> >>,
     type_params |-> <<>>, contents |-> BodyOne,
     return_type |-> << "T" >>, visibility |-> CRATE]
FnH ==
    [kind |-> "Function", name |-> "h", params |-> <<>>,
     type_params |-> << << "T", "Scalar" >>, << "U", "" >> >>, contents |-> FnF2,
     return_type |-> None, visibility |-> SUPER]

FunctionPool == {FnF1, FnF2, FnG, FnH}

\* The dicts name -> Function of at most n items.
Dicts(n) ==
    UNION {{d \in [1..m -> {<< f.name, f >> : f \in FunctionPool}] :
               \A i, j \in 1..m : i # j => d[i][1] # d[j][1]} : m \in 0..n}

FeatureSets == {{}, {"portable_simd", "test"}}
UseSets == {{"valib::Scalar"}, {"nalgebra::SMatrix", "valib::Scalar"}}

Files ==
    {[kind |-> "SourceFile", features |-> fs, uses |-> us, functions |-> d] :
        fs \in FeatureSets, us \in UseSets, d \in Dicts(MaxFuncs)}

InitCodegen ==
    /\ sfA \in Files /\ sfB \in Files
    /\ mergeAB = EmptyFile /\ mergeBA = EmptyFile
    /\ out1 = NoLines /\ out2 = NoLines /\ fnSel = EmptyFile /\ fnDepth = 0
    /\ fnBody = NoLines /\ fnLines = NoLines /\ fnPrinted = NoLines /\ cgPc = "start"
    /\ ppIdle /\ ssIdle /\ wIdle /\ nrIdle

\* sfA | sfB and sfB | sfA
Merge ==
    /\ cgPc = "start"
    /\ mergeAB' = SourceFileOr(sfA, sfB)
    /\ mergeBA' = SourceFileOr(sfB, sfA)
    /\ cgPc' = "merged"
    /\ UNCHANGED << sfA, sfB, out1, out2, fnSel, fnDepth, fnBody, fnLines, fnPrinted,
                    ppVars, ssVars, wVars, nrVars >>

\* list(mergeAB(printer)): a first render of the merged file
Render1 ==
    /\ cgPc = "merged"
    /\ \E fo \in Orderings(mergeAB.features), uo \in Orderings(mergeAB.uses) :
           out1' = SourceFileCall(mergeAB, fo, uo)
    /\ cgPc' = "rendered1"
    /\ UNCHANGED << sfA, sfB, mergeAB, mergeBA, out2, fnSel, fnDepth, fnBody, fnLines,
                    fnPrinted, ppVars, ssVars, wVars, nrVars >>

\* list(mergeAB(printer)) again: a second, independent render of the same file
Render2 ==
    /\ cgPc = "rendered1"
    /\ \E fo \in Orderings(mergeAB.features), uo \in Orderings(mergeAB.uses) :
           out2' = SourceFileCall(mergeAB, fo, uo)
    /\ cgPc' = "rendered2"
    /\ UNCHANGED << sfA, sfB, mergeAB, mergeBA, out1, fnSel, fnDepth, fnBody, fnLines,
                    fnPrinted, ppVars, ssVars, wVars, nrVars >>

\* For a Function func of sfA: list(func.contents(printer)),
\* list(func(printer)) and list(func.print(printer, depth))
RenderFunction ==
    /\ cgPc = "start"
    /\ \E i \in 1..Len(sfA.functions), depth \in 0..MaxDepth :
           /\ fnSel' = sfA.functions[i][2]
           /\ fnDepth' = depth
           /\ fnBody' = Call(sfA.functions[i][2].contents)
           /\ fnLines' = Call(sfA.functions[i][2])
           /\ fnPrinted' = print(sfA.functions[i][2], depth)
    /\ cgPc' = "printed"
    /\ UNCHANGED << sfA, sfB, mergeAB, mergeBA, out1, out2, ppVars, ssVars, wVars, nrVars >>

NextCodegen == Merge \/ Render1 \/ Render2 \/ RenderFunction

SpecCodegen == InitCodegen /\ [][NextCodegen]_vars

Items(d) == {d[i] : i \in 1..Len(d)}

\* C1: when sfA and sfB share no function name, sfA | sfB has the union of the
\* features, the union of the imports and the union of the function items,
\* each function under its name once; sfB | sfA has the same three.
C1_MergeDisjointIsUnion ==
    (cgPc = "merged" /\ Keys(sfA.functions) \cap Keys(sfB.functions) = {}) =>
        /\ mergeAB.features = sfA.features \cup sfB.features
        /\ mergeAB.uses = sfA.uses \cup sfB.uses
        /\ Items(mergeAB.functions) = Items(sfA.functions) \cup Items(sfB.functions)
        /\ Len(mergeAB.functions) = Len(sfA.functions) + Len(sfB.functions)
        /\ mergeBA.features = mergeAB.features
        /\ mergeBA.uses = mergeAB.uses
        /\ Items(mergeBA.functions) = Items(mergeAB.functions)
        /\ Len(mergeBA.functions) = Len(mergeAB.functions)

\* C1 witness: two files with functions of different names, different features
\* and different imports were merged.
C1_Witness ==
    /\ cgPc = "merged"
    /\ Keys(sfA.functions) \cap Keys(sfB.functions) = {}
    /\ Len(sfA.functions) > 0 /\ Len(sfB.functions) > 0
    /\ sfA.features # sfB.features /\ sfA.uses # sfB.uses
    /\ mergeAB.functions # mergeBA.functions

\* C2: a merge of two files that both hold a function of one name does not
\* silently drop one of the two: whenever a merge has returned a SourceFile,
\* every Function of either operand is still in it.
C2_CollisionNeverDropsAFunction ==
    cgPc = "merged" =>
        \A item \in Items(sfA.functions) \cup Items(sfB.functions) :
            item \in Items(mergeAB.functions)

\* C3: two independent renders of the same SourceFile give the same lines.
C3_RenderDeterministic == cgPc = "rendered2" => out1 = out2

\* The elements of a set of strings in ascending order.
Sorted(S) ==
    CHOOSE o \in Orderings(S) : \A i, j \in 1..Len(o) : i < j => StrLess(o[i], o[j])

\* C4: a render is the feature lines in sorted order of the flags, the import
\* lines in sorted order of the paths, a blank line, then every function's
\* lines followed by a blank line.
C4_RenderOrder ==
    cgPc \in {"rendered1", "rendered2"} =>
        out1.lines =
            [i \in 1..Cardinality(mergeAB.features) |->
                "#![feature(" \o Sorted(mergeAB.features)[i] \o ")]"]
            \o [i \in 1..Cardinality(mergeAB.uses) |->
                "use " \o Sorted(mergeAB.uses)[i] \o ";"]
            \o << "" >> \o FunctionsLines(mergeAB.functions).lines

\* C9: a Function whose body renders to L renders to len(L) + 2 lines: the
\* signature, every line of L behind four spaces, and "}"; print at a depth
\* gives the same lines, each behind depth times four spaces.
C9_FunctionRenderShape ==
    cgPc = "printed" =>
        /\ Len(fnLines.lines) = Len(fnBody.lines) + 2
        /\ fnLines.lines[1] = SignatureLine(fnSel)
        /\ \A i \in 1..Len(fnBody.lines) : fnLines.lines[i + 1] = "    " \o fnBody.lines[i]
        /\ fnLines.lines[Len(fnLines.lines)] = "}"
        /\ Len(fnPrinted.lines) = Len(fnLines.lines)
        /\ \A i \in 1..Len(fnLines.lines) :
               /\ Len(fnPrinted.lines[i]) = 4 * fnDepth + Len(fnLines.lines[i])
               /\ SubSeq(fnPrinted.lines[i], 1, 4 * fnDepth) = Repeat(" ", 4 * fnDepth)
               /\ SubSeq(fnPrinted.lines[i], 4 * fnDepth + 1, Len(fnPrinted.lines[i]))
                      = fnLines.lines[i]

\* C9 witness: a Function whose body has a blank line and an indented line was
\* rendered and printed at depth two.
C9_Witness ==
    /\ cgPc = "printed"
    /\ fnDepth = 2
    /\ \E i \in 1..Len(fnBody.lines) : fnBody.lines[i] = ""
    /\ \E i \in 1..Len(fnBody.lines) : fnBody.lines[i] = "    y"

(***************************************************************************)
(* Specification SpecStateSpace: the state-space adapter                   *)
(***************************************************************************)

\* The most entries of the matrix A that are drawn from EntryPool; the other
\* entries of A are zero.
MaxEntries == 2

SymA == [k |-> "sym", name |-> "a", real |-> FALSE]
SymAReal == [k |-> "sym", name |-> "a", real |-> TRUE]
SymB == [k |-> "sym", name |-> "b", real |-> FALSE]
SymUpperB == [k |-> "sym", name |-> "B", real |-> FALSE]
SymAB == [k |-> "sym", name |-> "ab", real |-> FALSE]
Int0 == [k |-> "int", v |-> 0]
Int1 == [k |-> "int", v |-> 1]
Half == [k |-> "rat", p |-> 1, q |-> 2]

EntryPool == {SymA, SymAReal, SymB, SymUpperB, SymAB, Int1, Half}

\* The rows x cols matrix with the given first entries and zero elsewhere.
Matrix(rows, cols, first) ==
    [rows |-> rows, cols |-> cols,
     vals |-> [i \in 1..(rows * cols) |-> IF i <= Len(first) THEN first[i] ELSE Int0]]

\* The models: Nx states, one input, one output; A is square of side Nx + extra
\* (extra = 1: its shape disagrees with the declared state count).
Models ==
    {[kind |-> "StateSpace",
      obj |-> [A |-> Matrix(nx + extra, nx + extra, first),
               B |-> Matrix(nx, 1, << Int1 >>),
               C |-> Matrix(1, nx, << Int1, SymAB >>),
               D |-> Matrix(1, 1, <<>>),
               Nu |-> 1, Nx |-> nx, Ny |-> 1]] :
        nx \in {1, 2}, extra \in {0, 1},
        first \in UNION {[1..m -> EntryPool] : m \in 0..MaxEntries}}

\* The declared dimensions disagree with the shape of one of the matrices.
Inconsistent(obj) ==
    \/ << obj.A.rows, obj.A.cols >> # << obj.Nx, obj.Nx >>
    \/ << obj.B.rows, obj.B.cols >> # << obj.Nx, obj.Nu >>
    \/ << obj.C.rows, obj.C.cols >> # << obj.Ny, obj.Nx >>
    \/ << obj.D.rows, obj.D.cols >> # << obj.Ny, obj.Nu >>

InitStateSpace ==
    /\ ssObj \in Models /\ ssPc = "start" /\ ssFunc = EmptyFile /\ ssFile = EmptyFile
    /\ ssOut = NoLines
    /\ ppIdle /\ cgIdle /\ wIdle /\ nrIdle

\* uses, func = ssObj.as_function(name, visibility)
AsFunction ==
    /\ ssPc = "start"
    /\ \E order \in Orderings(Atoms(ssObj.obj)), visibility \in {PRIVATE, CRATE} :
           ssFunc' = as_function(ssObj, "input", visibility, order).func
    /\ ssPc' = "function"
    /\ UNCHANGED << ssObj, ssFile, ssOut, ppVars, cgVars, wVars, nrVars >>

\* list(ssObj(printer)): the body alone
RenderBody ==
    /\ ssPc = "start"
    /\ ssOut' = Call(ssObj)
    /\ ssPc' = "body"
    /\ UNCHANGED << ssObj, ssFunc, ssFile, ppVars, cgVars, wVars, nrVars >>

\* ssObj.as_source_file(function_name)
AsSourceFile ==
    /\ ssPc = "start"
    /\ \E order \in Orderings(Atoms(ssObj.obj)) :
           ssFile' = as_source_file(ssObj, "input", PRIVATE, order)
    /\ ssPc' = "file"
    /\ UNCHANGED << ssObj, ssFunc, ssOut, ppVars, cgVars, wVars, nrVars >>

\* list(ssFile(printer))
RenderFile ==
    /\ ssPc = "file"
    /\ \E fo \in Orderings(ssFile.features), uo \in Orderings(ssFile.uses) :
           ssOut' = SourceFileCall(ssFile, fo, uo)
    /\ ssPc' = "rendered"
    /\ UNCHANGED << ssObj, ssFunc, ssFile, ppVars, cgVars, wVars, nrVars >>

NextStateSpace == AsFunction \/ RenderBody \/ AsSourceFile \/ RenderFile

SpecStateSpace == InitStateSpace /\ [][NextStateSpace]_vars

\* C5: for a model whose declared dimensions disagree with a matrix shape no
\* line is ever yielded, and a render ends in an error.
C5_NoTextForInconsistentModel ==
    Inconsistent(ssObj.obj) =>
        /\ ssOut.lines = <<>>
        /\ ssPc \in {"body", "rendered"} => ssOut.raises

\* C8: the Function of as_function has one parameter (name, "T") for each
\* free symbol of the matrices, in ascending order of the printed names.
C8_ParamsSortedOnePerSymbol ==
    ssPc = "function" =>
        LET params == ssFunc.params
            atoms == Atoms(ssObj.obj)
        IN  /\ Len(params) = Cardinality(atoms)
            /\ \A i \in 1..Len(params) : params[i][2] = "T"
            /\ \A a \in atoms :
                   Cardinality({i \in 1..Len(params) : params[i][1] = a.name})
                       = Cardinality({b \in atoms : b.name = a.name})
            /\ \A i, j \in 1..Len(params) :
                   i < j => ~StrLess(params[j][1], params[i][1])

\* C8 witness: b occurs before a and a before ab in the matrices, and the
\* parameters are a, ab, b.
C8_Witness ==
    /\ ssPc = "function"
    /\ Len(ssObj.obj.A.vals) >= 2
    /\ ssObj.obj.A.vals[1] = SymB
    /\ ssObj.obj.A.vals[2] = SymA
    /\ SymAB \in Atoms(ssObj.obj)
    /\ ssFunc.params = << << "a", "T" >>, << "ab", "T" >>, << "b", "T" >> >>

(***************************************************************************)
(* Specification SpecWrite: Generatable.write_to                           *)
(***************************************************************************)

BodyRaises == [kind |-> "Raw", lines |-> << "let y = a;" >>, raises |-> TRUE]
BodyRaisesAtOnce == [kind |-> "Raw", lines |-> <<>>, raises |-> TRUE]

FnRaises ==
    [kind |-> "Function", name |-> "r", params |-> << << "a", "T" >> >>,
     type_params |-> <<>>, contents |-> BodyRaises,
     return_type |-> None, visibility |-> PRIVATE]

WriteTargets == {FnF1, FnF2, FnG, FnH, FnRaises, BodyLet, BodyNone, BodyRaises,
                 BodyRaisesAtOnce}

\* The file at path before the call: absent, empty, or with an older text.
FilesBefore ==
    {[exists |-> FALSE, text |-> ""], [exists |-> TRUE, text |-> ""],
     [exists |-> TRUE, text |-> "fn old() {\n}\n"]}

\* "".join(f"{s}\n" for s in lines)
RECURSIVE FullText(_)
FullText(lines) ==
    IF Len(lines) = 0 THEN "" ELSE lines[1] \o "\n" \o FullText(Tail(lines))

InitWrite ==
    /\ wTarget \in WriteTargets /\ wBefore \in FilesBefore /\ wFile = wBefore
    /\ wGen = NoLines /\ wPc = "start" /\ wPos = 0 /\ wHandle = "none"
    /\ wBuf = "" /\ wRaised = "none"
    /\ ppIdle /\ cgIdle /\ ssIdle /\ nrIdle

\* open(path, "w") creates or truncates the file; the generator self(printer)
\* is made.
WriteToOpen ==
    /\ wPc = "start"
    /\ wFile' = [exists |-> TRUE, text |-> ""]
    /\ wHandle' = "open"
    /\ wGen' = Call(wTarget)
    /\ wPc' = "writing"
    /\ UNCHANGED << wTarget, wPos, wBuf, wBefore, wRaised, ppVars, cgVars, ssVars, nrVars >>

\* open(path, "w") raises OSError: nothing is opened, nothing is changed.
WriteToOpenFails ==
    /\ wPc = "start"
    /\ wPc' = "failed"
    /\ wRaised' = "OSError"
    /\ UNCHANGED << wTarget, wGen, wPos, wBuf, wFile, wBefore, wHandle, ppVars, cgVars,
                    ssVars, nrVars >>

\* writelines takes the next line of the generator and writes it: f is a
\* buffered text file, and a text shorter than its buffer (every text here)
\* stays in the buffer until f is closed; the file on disk is still empty.
WriteToLine ==
    /\ wPc = "writing" /\ wPos < Len(wGen.lines)
    /\ wBuf' = wBuf \o wGen.lines[wPos + 1] \o "\n"
    /\ wPos' = wPos + 1
    /\ UNCHANGED << wTarget, wGen, wPc, wFile, wBefore, wHandle, wRaised, ppVars, cgVars,
                    ssVars, nrVars >>

\* The generator is exhausted; the with statement closes f, which flushes the
\* buffer to the file.
WriteToClose ==
    /\ wPc = "writing" /\ wPos = Len(wGen.lines) /\ ~wGen.raises
    /\ wFile' = [wFile EXCEPT !.text = wBuf]
    /\ wHandle' = "closed"
    /\ wPc' = "done"
    /\ UNCHANGED << wTarget, wGen, wPos, wBuf, wBefore, wRaised, ppVars, cgVars, ssVars,
                    nrVars >>

\* The generator is exhausted; the with statement closes f and the flush of
\* the buffer fails (file too large, disk full) after k of its characters:
\* close raises OSError, f is closed, the file holds the first k characters.
WriteToCloseFails ==
    /\ wPc = "writing" /\ wPos = Len(wGen.lines) /\ ~wGen.raises
    /\ \E k \in 0..(Len(wBuf) - 1) : wFile' = [wFile EXCEPT !.text = SubSeq(wBuf, 1, k)]
    /\ wHandle' = "closed"
    /\ wPc' = "failed"
    /\ wRaised' = "OSError"
    /\ UNCHANGED << wTarget, wGen, wPos, wBuf, wBefore, ppVars, cgVars, ssVars, nrVars >>

\* The generator raises after its last line; the with statement closes f, which
\* flushes the lines written so far, and the generator's exception goes on.
WriteToGeneratorRaises ==
    /\ wPc = "writing" /\ wPos = Len(wGen.lines) /\ wGen.raises
    /\ wFile' = [wFile EXCEPT !.text = wBuf]
    /\ wHandle' = "closed"
    /\ wPc' = "failed"
    /\ wRaised' = "generator"
    /\ UNCHANGED << wTarget, wGen, wPos, wBuf, wBefore, ppVars, cgVars, ssVars, nrVars >>

\* The generator raises after its last line and the flush of the with
\* statement's close fails after k characters: the OSError of close is raised.
WriteToGeneratorRaisesCloseFails ==
    /\ wPc = "writing" /\ wPos = Len(wGen.lines) /\ wGen.raises
    /\ \E k \in 0..(Len(wBuf) - 1) : wFile' = [wFile EXCEPT !.text = SubSeq(wBuf, 1, k)]
    /\ wHandle' = "closed"
    /\ wPc' = "failed"
    /\ wRaised' = "OSError"
    /\ UNCHANGED << wTarget, wGen, wPos, wBuf, wBefore, ppVars, cgVars, ssVars, nrVars >>

NextWrite ==
    \/ WriteToOpen \/ WriteToOpenFails \/ WriteToLine \/ WriteToClose
    \/ WriteToCloseFails \/ WriteToGeneratorRaises \/ WriteToGeneratorRaisesCloseFails

SpecWrite == InitWrite /\ [][NextWrite]_vars

\* C6: when write_to has returned or failed, the file is as before the call or
\* holds the complete text, and the handle is not open.
C6_NoPartialFile ==
    wPc \in {"done", "failed"} =>
        /\ \/ wFile = wBefore
           \/ /\ wFile.exists /\ ~wGen.raises /\ wPos = Len(wGen.lines)
              /\ wFile.text = FullText(wGen.lines)
        /\ wHandle # "open"

(***************************************************************************)
(* Specification SpecNewton: NewtonRhapson.__call__                        *)
(***************************************************************************)

\* The largest iteration limit n.
MaxN == 3

\* The most passes of the loop that are followed when n sets no limit.
MaxPasses == 4

\* The longest signal.
MaxSignalLen == 2

Problems ==
    {[k |-> 0, d |-> 1], [k |-> 1, d |-> 1], [k |-> 2, d |-> 1], [k |-> 3, d |-> 1],
     [k |-> 2, d |-> 2], [k |-> 1, d |-> 0]}

Signals == UNION {[1..m -> {0, 1, 3}] : m \in 1..MaxSignalLen}

InitNewton ==
    /\ nrProb \in Problems /\ nrN \in 0..MaxN /\ nrTol \in {1, 2}
    /\ nrX \in Signals
    /\ nrInitial \in {None, << [i \in 1..Len(nrX) |-> 1] >>}
    /\ nrIter \in {<<>>, << nrX >>}
    /\ nrGuess = <<>> /\ nrPass = 0 /\ nrPc = "start"
    /\ ppIdle /\ cgIdle /\ ssIdle /\ wIdle

\* The guess the loop starts from: np.copy(initial), initial defaulting to
\* np.zeros_like(x).
StartGuess == IF nrInitial = None THEN zeros_like(nrX) ELSE nrInitial[1]

\* __call__ up to the loop.
NRCall ==
    /\ nrPc = "start"
    /\ nrGuess' = StartGuess
    /\ nrIter' = <<>>
    /\ nrPass' = 0
    /\ nrPc' = "loop"
    /\ UNCHANGED << nrProb, nrN, nrTol, nrX, nrInitial, ppVars, cgVars, ssVars, wVars >>

\* Whether a pass of the loop from guess ends in one of the two breaks.
Breaks(guess) ==
    IF rms_less(differential(nrProb, nrX, guess), nrTol) THEN TRUE
    ELSE rms_less(Step(nrProb, nrX, guess), nrTol)

\* A pass of the loop that ends in a break.
NRBreak ==
    /\ nrPc = "loop" /\ LoopContinues(nrN, nrPass)
    /\ nrN > 0 \/ nrPass < MaxPasses
    /\ Breaks(nrGuess)
    /\ nrPc' = "done"
    /\ UNCHANGED << nrProb, nrN, nrTol, nrIter, nrX, nrInitial, nrGuess, nrPass,
                    ppVars, cgVars, ssVars, wVars >>

\* A pass of the loop that updates the guess and records it.
NRUpdate ==
    /\ nrPc = "loop" /\ LoopContinues(nrN, nrPass)
    /\ nrN > 0 \/ nrPass < MaxPasses
    /\ ~Breaks(nrGuess)
    /\ LET step == Step(nrProb, nrX, nrGuess)
           guess == [i \in 1..Len(nrGuess) |-> nrGuess[i] - step[i]]
       IN  /\ nrGuess' = guess
           /\ nrIter' = Append(nrIter, guess)
    /\ nrPass' = nrPass + 1
    /\ UNCHANGED << nrProb, nrN, nrTol, nrX, nrInitial, nrPc, ppVars, cgVars, ssVars, wVars >>

\* The iterator is exhausted: return guess.
NRReturn ==
    /\ nrPc = "loop" /\ ~LoopContinues(nrN, nrPass)
    /\ nrPc' = "done"
    /\ UNCHANGED << nrProb, nrN, nrTol, nrIter, nrX, nrInitial, nrGuess, nrPass,
                    ppVars, cgVars, ssVars, wVars >>

NextNewton == NRCall \/ NRBreak \/ NRUpdate \/ NRReturn

\* The call runs on one thread and always takes its next step.
SpecNewton == InitNewton /\ [][NextNewton]_vars /\ WF_vars(NextNewton)

\* The guess before the i-th update.
GuessBefore(i) == IF i = 1 THEN StartGuess ELSE nrIter[i - 1]

\* The history of a call: one entry for each update, in order, each the guess
\* before it less a step that was not below tol; the guess is the last entry.
HistoryInOrder ==
    /\ nrPass = Len(nrIter)
    /\ \A i \in 1..Len(nrIter) :
           /\ ~Breaks(GuessBefore(i))
           /\ nrIter[i] = [j \in 1..Len(nrX) |->
                              GuessBefore(i)[j] - Step(nrProb, nrX, GuessBefore(i))[j]]
    /\ nrGuess = GuessBefore(Len(nrIter) + 1)

\* C10 as stated: with iteration limit n there are at most n updates (none
\* when n is not positive).
C10_AtMostNUpdates ==
    nrPc \in {"loop", "done"} => Len(nrIter) <= (IF nrN > 0 THEN nrN ELSE 0)

\* C10 amended: with an iteration limit n > 0 there are at most n updates, the
\* history holds one entry for each in order, a return before the n-th update
\* is a break on a step (or derivative) below tol with the update not applied,
\* and the call returns; with n <= 0 there is no limit.
C10_BoundedWhenLimitPositive ==
    /\ [](nrPc \in {"loop", "done"} =>
            /\ HistoryInOrder
            /\ nrN > 0 => Len(nrIter) <= nrN
            /\ (nrN > 0 /\ nrPc = "done" /\ Len(nrIter) < nrN) => Breaks(nrGuess))
    /\ []((nrPc = "loop" /\ nrN > 0) => <>(nrPc = "done"))

\* C10 witness: a call with limit 3 returned after 3 updates without a break.
C10_Witness ==
    /\ nrPc = "done" /\ nrN = 3 /\ Len(nrIter) = 3 /\ ~Breaks(nrGuess)

====
